---- MODULE Spec2Model ----
(***************************************************************************)
(* A model of gpytorch's abstract variational strategy                     *)
(* (gpytorch/variational/_variational_strategy.py) and of the spectral     *)
(* autoregressive flow kernels                                             *)
(* (gpytorch/kernels/spectral_autoregressive_flow_kernel.py).              *)
(*                                                                         *)
(* The strategy is a state machine over its training flag, its             *)
(* variational_params_initialized buffer and its _memoize_cache            *)
(* dictionary.  Every public operation is one action; what an operation    *)
(* did (the order of its steps, what it returned or raised) is recorded    *)
(* in the observation variable "last".                                     *)
(***************************************************************************)
EXTENDS Integers, Sequences, FiniteSets, TLC

VARIABLES
    training,     \* [Instances -> BOOLEAN]: Module.training of each strategy
    initialized,  \* [Instances -> 0..1]: the variational_params_initialized buffer
    cache,        \* [Instances -> [has, d]]: the _memoize_cache attribute (has) and dict (d)
    genOf,        \* [Instances -> Generators]: the generator each strategy references
    gen,          \* [Generators -> [kind, by, ver]]: the generators' type and parameters
    pver,         \* version of the model parameters / inducing points
    precond,      \* the global settings.max_preconditioner_size value
    initCount,    \* [Instances -> Nat]: returned initialize_variational_distribution calls
    last,         \* observation of the last operation
    kernel,       \* a kernel, the inputs of one evaluation and its result
    inducing_points  \* [Instances -> [input, shape, learn, val]]: the registered points

vars == <<training, initialized, cache, genOf, gen, pver, precond, initCount, last, kernel,
          inducing_points>>

----------------------------------------------------------------------------
(* Bounds and small input sets *)

\* Number of parameter updates (optimizer steps) a behaviour may contain.
MaxVer == 1

\* Matrices handed to _cholesky_factor are 1..MaxMatrix.
MaxMatrix == 2

\* Kernel inputs hold 1..MaxPts points of 1..MaxDim dimensions; num_dims is
\* in 1..MaxDim.
MaxPts == 3
MaxDim == 3

\* The axes of the tensors given as inducing points have sizes 1..MaxInduc.
MaxInduc == 2

Instances == {1, 2}
Generators == {1, 2}
Xs == {1, 2}
ObjIds == {1, 2}
Kinds == {"MultivariateNormal", "Delta", "Other"}
PrecondSizes == {0, 15, 100}
\* What may go wrong inside an invocation: nothing, the prior computation
\* raises, initialize_variational_distribution raises.
Faults == {"none", "prior", "init"}

PRIOR == "prior_distribution_memo"
QU == "variational_distribution_memo"
CHOL == "cholesky_factor"

EmptyDict == [n \in {} |-> 0]
NoCache == [has |-> FALSE, d |-> EmptyDict]

----------------------------------------------------------------------------
(* The memoize helpers used by @cached *)

is_in_cache(c, name) == c.has /\ name \in DOMAIN c.d

add_to_cache(c, name, val) ==
    [has |-> TRUE, d |-> (name :> val) @@ (IF c.has THEN c.d ELSE EmptyDict)]

get_from_cache(c, name) == c.d[name]

\* The entries of a cache: an absent attribute holds none.
CacheEntries(c) == IF c.has THEN c.d ELSE EmptyDict

----------------------------------------------------------------------------
(* Values *)

NoError == [type |-> "", names |-> ""]
NoPrior == [by |-> 0, ver |-> 0]
NoQ == [kind |-> "", by |-> 0, ver |-> 0, init |-> 0]

\* p(u) of strategy i, evaluated at the inducing points and model parameters
\* of version v.
PriorValue(i, v) == [by |-> i, ver |-> v]

\* What the generator returns when called: q(u) built from its current
\* parameters.  "init" records the strategy's flag at that moment.
GeneratorCall(g, flag) == [kind |-> g.kind, by |-> g.by, ver |-> g.ver, init |-> flag]

\* __init__, the inducing points: the input is cloned, a 1-D input gets a
\* trailing axis.
StoredShape(input) == IF Len(input) = 1 THEN input \o <<1>> ELSE input

\* The registered inducing points: a parameter (learn) or a buffer; val
\* counts the updates their values have received.
Register(input, learn) ==
    [input |-> input, shape |-> StoredShape(input), learn |-> learn, val |-> 0]

\* A frame: "self" and what it references, threaded through the steps of one
\* operation.  self: the strategy; tr: self.training; c: the cache; init:
\* variational_params_initialized; g: the generator; pv: the version of the
\* model parameters and inducing points; ic: returned initialize calls;
\* ev: the steps taken so far; err: the exception raised, if any;
\* initPrior: the prior handed to initialize_variational_distribution;
\* dropped: the names of the cache entries the operation deleted;
\* pts: self.inducing_points; view: the shape of the expanded inducing
\* points handed to forward.
Frame(i) ==
    [self |-> i, tr |-> training[i], c |-> cache[i], init |-> initialized[i],
     g |-> gen[genOf[i]], pv |-> pver, ic |-> initCount[i],
     ev |-> <<>>, err |-> NoError, initPrior |-> NoPrior, dropped |-> {},
     pts |-> inducing_points[i], view |-> <<>>]

Log(f, e) == [f EXCEPT !.ev = Append(@, e)]

----------------------------------------------------------------------------
(* The cached members *)

\* @cached(name="prior_distribution_memo") prior_distribution; "fails" says
\* whether the concrete subclass's computation raises.
prior_distribution(f, fails) ==
    IF is_in_cache(f.c, PRIOR)
    THEN Log(f, "prior_hit")
    ELSE IF fails
         THEN [Log(f, "prior_compute") EXCEPT !.err = [type |-> "PriorError", names |-> ""]]
         ELSE [Log(f, "prior_compute") EXCEPT !.c = add_to_cache(f.c, PRIOR, PriorValue(f.self, f.pv))]

\* @cached(name="variational_distribution_memo") variational_distribution
variational_distribution(f) ==
    IF is_in_cache(f.c, QU)
    THEN Log(f, "q_hit")
    ELSE [Log(f, "q_compute") EXCEPT !.c = add_to_cache(f.c, QU, GeneratorCall(f.g, f.init))]

\* @cached(name="cholesky_factor") _cholesky_factor(induc_induc_covar):
\* psd_safe_cholesky(delazify(m).double())
\* Mutant of CholeskyOf: the matrix is factorized in its own precision.
CholeskyOf_AmbientPrecision(m) == [of |-> m, dtype |-> "float"]

CholeskyOf(m) == [of |-> m, dtype |-> "double"]

cholesky_factor_cached(f, m) ==
    IF is_in_cache(f.c, CHOL)
    THEN Log(f, "chol_hit")
    ELSE [Log(f, "chol_compute") EXCEPT !.c = add_to_cache(f.c, CHOL, CholeskyOf(m))]

----------------------------------------------------------------------------
(* The steps of __call__ *)

\* Mutant of InvalidateOnCall: the cache is emptied in evaluation mode too.
InvalidateOnCall_AnyMode(f) ==
    IF f.c.has
    THEN [Log(f, "invalidate") EXCEPT !.c = [has |-> TRUE, d |-> EmptyDict],
                                      !.dropped = DOMAIN f.c.d]
    ELSE Log(f, "invalidate")

\* "Delete previously cached items from the training distribution"
InvalidateOnCall(f) ==
    IF f.tr
    THEN IF f.c.has
         THEN [Log(f, "invalidate") EXCEPT !.c = [has |-> TRUE, d |-> EmptyDict],
                                           !.dropped = DOMAIN f.c.d]
         ELSE Log(f, "invalidate")
    ELSE f

\* Mutant of MaybeInitialize: the flag is not consulted, every invocation
\* initializes.
MaybeInitialize_Always(f, priorFails, initFails) ==
    LET f0 == Log(f, "init_check")
        f1 == prior_distribution(f0, priorFails)
    IN IF f1.err # NoError
       THEN f1
       ELSE LET p == get_from_cache(f1.c, PRIOR)
                f2 == [Log(f1, "initialize") EXCEPT !.initPrior = p]
            IN IF initFails
               THEN [f2 EXCEPT !.err = [type |-> "InitError", names |-> ""]]
               ELSE [f2 EXCEPT !.g = [@ EXCEPT !.by = p.by, !.ver = p.ver],
                               !.init = 1,
                               !.ic = @ + 1]

\* Mutant of MaybeInitialize: the flag is filled before the prior is computed
\* and the generator initialized.
MaybeInitialize_FlagFirst(f, priorFails, initFails) ==
    LET f0 == Log(f, "init_check") IN
    IF f0.init # 0
    THEN f0
    ELSE LET f1 == prior_distribution([f0 EXCEPT !.init = 1], priorFails) IN
         IF f1.err # NoError
         THEN f1
         ELSE LET p == get_from_cache(f1.c, PRIOR)
                  f2 == [Log(f1, "initialize") EXCEPT !.initPrior = p]
              IN IF initFails
                 THEN [f2 EXCEPT !.err = [type |-> "InitError", names |-> ""]]
                 ELSE [f2 EXCEPT !.g = [@ EXCEPT !.by = p.by, !.ver = p.ver],
                                 !.ic = @ + 1]

\* "(Maybe) initialize variational distribution"
MaybeInitialize(f, priorFails, initFails) ==
    LET f0 == Log(f, "init_check") IN
    IF f0.init # 0
    THEN f0
    ELSE LET f1 == prior_distribution(f0, priorFails) IN
         IF f1.err # NoError
         THEN f1
         ELSE LET p == get_from_cache(f1.c, PRIOR)
                  f2 == [Log(f1, "initialize") EXCEPT !.initPrior = p]
              IN IF initFails
                 THEN [f2 EXCEPT !.err = [type |-> "InitError", names |-> ""]]
                 ELSE [f2 EXCEPT !.g = [@ EXCEPT !.by = p.by, !.ver = p.ver],
                                 !.init = 1,
                                 !.ic = @ + 1]

\* tensor.expand(*sizes): the sizes are aligned with the tensor's axes from
\* the right; an axis keeps its size or, being of size 1, takes the new one;
\* there may be no fewer sizes than axes.
Expand(sq, sizes) ==
    LET n == Len(sizes)
        off == n - Len(sq)
    IN IF off >= 0 /\ \A k \in 1..Len(sq) : sq[k] = sizes[k + off] \/ sq[k] = 1
       THEN [ok |-> TRUE, shape |-> sizes]
       ELSE [ok |-> FALSE, shape |-> <<>>]

\* Mutant of ExpandPoints: the expanded tensor is assigned to
\* self.inducing_points.
ExpandPoints_Assigned(f) ==
    LET sh == f.pts.shape
        e == Expand(sh, f.g.batch \o SubSeq(sh, Len(sh) - 1, Len(sh)))
    IN IF e.ok
       THEN [Log(f, "expand") EXCEPT !.view = e.shape, !.pts = [@ EXCEPT !.shape = e.shape]]
       ELSE [Log(f, "expand") EXCEPT !.err = [type |-> "ExpandError", names |-> ""]]

\* "Ensure inducing_points and x are the same size": a local view of the
\* points, expanded to the generator's batch shape (x is taken to expand).
ExpandPoints(f) ==
    LET sh == f.pts.shape
        e == Expand(sh, f.g.batch \o SubSeq(sh, Len(sh) - 1, Len(sh)))
    IN IF e.ok
       THEN [Log(f, "expand") EXCEPT !.view = e.shape]
       ELSE [Log(f, "expand") EXCEPT !.err = [type |-> "ExpandError", names |-> ""]]

\* Mutant of Dispatch: a q(u) of any other type is treated like a Delta.
Dispatch_OtherAsDelta(q, a, b) ==
    IF q.kind = "MultivariateNormal"
    THEN [fwd |-> <<[values |-> "mean", covar |-> "lazy_covariance_matrix",
                      returns |-> <<a, b>>]>>,
          pred |-> <<[src |-> "forward", id |-> a]>>,
          map |-> <<[src |-> "forward", id |-> b]>>,
          err |-> NoError]
    ELSE [fwd |-> <<[values |-> "mean", covar |-> "None", returns |-> <<a>>]>>,
          pred |-> <<[src |-> "forward", id |-> a]>>,
          map |-> <<[src |-> "forward", id |-> a]>>,
          err |-> NoError]

\* "Get q(f)": the dispatch on the type of q(u).  super().__call__ runs
\* forward; a, b are the objects forward returns (a pair for a
\* MultivariateNormal q(u), one object for a Delta).  The outcome: the forward
\* calls made, the two distributions, the error.
Dispatch(q, a, b) ==
    IF q.kind = "MultivariateNormal"
    THEN [fwd |-> <<[values |-> "mean", covar |-> "lazy_covariance_matrix",
                      returns |-> <<a, b>>]>>,
          pred |-> <<[src |-> "forward", id |-> a]>>,
          map |-> <<[src |-> "forward", id |-> b]>>,
          err |-> NoError]
    ELSE IF q.kind = "Delta"
    THEN [fwd |-> <<[values |-> "mean", covar |-> "None", returns |-> <<a>>]>>,
          pred |-> <<[src |-> "forward", id |-> a]>>,
          map |-> <<[src |-> "forward", id |-> a]>>,
          err |-> NoError]
    ELSE [fwd |-> <<>>, pred |-> <<>>, map |-> <<>>,
          err |-> [type |-> "RuntimeError", names |-> q.kind]]

\* Mutant of ReturnValue: return_map_dist is ignored.
ReturnValue_PredOnly(d, ret) == d.pred

\* The return statement: the pair, or the predictive alone.
ReturnValue(d, ret) == IF ret THEN d.pred \o d.map ELSE d.pred

\* What an operation hands back besides the frame: the q(u) it dispatched
\* on, the forward calls it made, and the value it returned.
Outcome(f, q, fwd, result) == [f |-> f, q |-> q, fwd |-> fwd, result |-> result]

\* Mutant of PriorCall: the prior test sits below the cache invalidation.
PriorCall_AfterInvalidate(f, x) ==
    Outcome(InvalidateOnCall(f), NoQ, <<>>, <<[src |-> "model.forward", id |-> x]>>)

\* "If we're in prior mode, then we're done!": return self.model.forward(x)
PriorCall(f, x) == Outcome(f, NoQ, <<>>, <<[src |-> "model.forward", id |-> x]>>)

\* Mutant of NonPriorCall: the initialization runs before the invalidation.
NonPriorCall_InitializeFirst(f, ret, priorFails, initFails, a, b) ==
    LET f1 == MaybeInitialize(f, priorFails, initFails)
        f1a == IF f1.err = NoError THEN InvalidateOnCall(f1) ELSE f1
        f2 == IF f1a.err = NoError THEN ExpandPoints(f1a) ELSE f1a
    IN IF f2.err # NoError
       THEN Outcome(f2, NoQ, <<>>, <<>>)
       ELSE LET f3 == variational_distribution(f2)
                q == get_from_cache(f3.c, QU)
                d == Dispatch(q, a, b)
            IN IF d.err # NoError
               THEN Outcome([f3 EXCEPT !.err = d.err], q, d.fwd, <<>>)
               ELSE Outcome(Log(f3, "forward"), q, d.fwd, ReturnValue(d, ret))

\* The rest of __call__, in the order of the code.
NonPriorCall(f, ret, priorFails, initFails, a, b) ==
    LET f1 == InvalidateOnCall(f)
        f1a == MaybeInitialize(f1, priorFails, initFails)
        f2 == IF f1a.err = NoError THEN ExpandPoints(f1a) ELSE f1a
    IN IF f2.err # NoError
       THEN Outcome(f2, NoQ, <<>>, <<>>)
       ELSE LET f3 == variational_distribution(f2)
                q == get_from_cache(f3.c, QU)
                d == Dispatch(q, a, b)
            IN IF d.err # NoError
               THEN Outcome([f3 EXCEPT !.err = d.err], q, d.fwd, <<>>)
               ELSE Outcome(Log(f3, "forward"), q, d.fwd, ReturnValue(d, ret))

CallEffect(f, x, prior, ret, priorFails, initFails, a, b) ==
    IF prior THEN PriorCall(f, x)
    ELSE NonPriorCall(f, ret, priorFails, initFails, a, b)

----------------------------------------------------------------------------
(* train and kl_divergence *)

\* Mutant of TrainClears: the cache is cleared only when the mode changes.
TrainClears_OnModeChange(tr, mode) == tr # mode

\* "Make sure we are clearing the cache if we change modes"
TrainClears(tr, mode) == (tr /\ ~mode) \/ mode

TrainEffect(f, mode) ==
    LET f1 == IF TrainClears(f.tr, mode)
              THEN IF f.c.has
                   THEN [Log(f, "delattr") EXCEPT !.c = NoCache, !.dropped = DOMAIN f.c.d]
                   ELSE Log(f, "clear")
              ELSE f
    IN [f1 EXCEPT !.tr = mode]

\* settings.max_preconditioner_size(0) as a context manager: entering sets
\* the global value and remembers the previous one, leaving restores it.
PrecondEnter(ambient, value) == [value |-> value, orig |-> ambient]
PrecondExit(ctx) == ctx.orig

\* The body of the with block: both cached members are read (q(u) first),
\* then torch's kl_divergence runs under the setting in force.
KlBody(f, priorFails, klFails) ==
    LET f1 == variational_distribution(f)
        f2 == prior_distribution(f1, priorFails)
    IN IF f2.err # NoError THEN f2
       ELSE IF klFails
            THEN [Log(f2, "kl") EXCEPT !.err = [type |-> "KLError", names |-> ""]]
            ELSE Log(f2, "kl")

\* Mutant of KlEffect: the divergence is computed outside the with block.
KlEffect_NoContext(f, ambient, priorFails, klFails) ==
    [f |-> KlBody(f, priorFails, klFails), seen |-> ambient, left |-> ambient]

\* kl_divergence: the frame after it, the setting the computation ran under
\* and the setting left behind.
KlEffect(f, ambient, priorFails, klFails) ==
    LET ctx == PrecondEnter(ambient, 0)
        f1 == KlBody(f, priorFails, klFails)
    IN [f |-> f1, seen |-> ctx.value, left |-> PrecondExit(ctx)]

----------------------------------------------------------------------------
(* The spectral autoregressive flow kernels *)

\* Constructor arguments: an integer, a list, or an argument left out.
PyInt(k) == [type |-> "int", val |-> <<k>>]
PyList(sq) == [type |-> "list", val |-> sq]
DefaultArg == [type |-> "default", val |-> <<>>]

\* The defaults of the two constructors: stack_size=1, hidden_factors=[8, 8].
DefaultStackSize == PyInt(1)
DefaultHiddenFactors == PyList(<<8, 8>>)

\* SpectralAutoregressiveFlowKernel.__init__: self.dsf is a ModuleList of
\* stack_size blocks when stack_size > 1 and one block otherwise; comparing
\* a list with 1 raises a TypeError.  hidden: the hidden_factors the blocks
\* are configured with (DefaultArg: the transform's own default).
BaseInit(num_dims, stack_size) ==
    IF stack_size.type # "int"
    THEN [status |-> "TypeError", list |-> FALSE, blocks |-> 0, hidden |-> DefaultArg]
    ELSE IF stack_size.val[1] > 1
    THEN [status |-> "ok", list |-> TRUE, blocks |-> stack_size.val[1], hidden |-> DefaultArg]
    ELSE [status |-> "ok", list |-> FALSE, blocks |-> 1, hidden |-> DefaultArg]

\* TrapezoidalSpectralAutoregressiveFlowKernel.__init__:
\* super().__init__(num_dims, hidden_factors, **kwargs)
TrapezoidalInit(num_dims, hidden_factors) == BaseInit(num_dims, hidden_factors)

\* Constructing a kernel of a variant with num_dims and at most one more
\* argument (stack_size, resp. hidden_factors); given records that argument.
KernelInit(variant, num_dims, arg) ==
    LET built == IF variant = "weighted"
                 THEN TrapezoidalInit(num_dims,
                                      IF arg = DefaultArg THEN DefaultHiddenFactors ELSE arg)
                 ELSE BaseInit(num_dims, IF arg = DefaultArg THEN DefaultStackSize ELSE arg)
    IN [status |-> built.status, list |-> built.list, blocks |-> built.blocks,
        hidden |-> built.hidden, given |-> arg]

\* No kernel has been constructed.
NotBuilt ==
    [status |-> "none", list |-> FALSE, blocks |-> 0, hidden |-> DefaultArg,
     given |-> DefaultArg]

\* Number of spectral samples drawn per evaluation.
NumSamples == 2000
NumSamplesWeighted == 1000

\* Shapes are sequences of sizes.  A failed operation has no shape.
Shape(sq) == [ok |-> TRUE, shape |-> sq]
NoShape == [ok |-> FALSE, shape |-> <<>>]

\* tensor.unsqueeze(-k): a size-1 axis, k-th from the end of the result.
Unsqueeze(sq, k) ==
    LET n == Len(sq) IN SubSeq(sq, 1, n - k + 1) \o <<1>> \o SubSeq(sq, n - k + 2, n)

RECURSIVE Ones(_)
Ones(n) == IF n <= 0 THEN <<>> ELSE <<1>> \o Ones(n - 1)

Max(a, b) == IF a >= b THEN a ELSE b

\* The shape of an elementwise operation on two tensors: sizes are aligned
\* from the right, and must be equal unless one of them is 1.
Broadcast(s1, s2) ==
    LET n == Max(Len(s1), Len(s2))
        p1 == Ones(n - Len(s1)) \o s1
        p2 == Ones(n - Len(s2)) \o s2
    IN IF \A k \in 1..n : p1[k] = p2[k] \/ p1[k] = 1 \/ p2[k] = 1
       THEN Shape([k \in 1..n |-> Max(p1[k], p2[k])])
       ELSE NoShape

\* tensor.sum(-k) / tensor.mean(-k): the k-th axis from the end is reduced.
Reduce(sq, k) ==
    LET n == Len(sq) IN SubSeq(sq, 1, n - k) \o SubSeq(sq, n - k + 2, n)

\* Mutant of create_input_grid: the two unsqueezed axes are exchanged.
create_input_grid_Exchanged(s1, s2, diag) ==
    IF diag THEN <<s1, s2>> ELSE <<Unsqueeze(s1, 3), Unsqueeze(s2, 2)>>

\* _create_input_grid with last_dim_is_batch=False
create_input_grid(s1, s2, diag) ==
    IF diag THEN <<s1, s2>> ELSE <<Unsqueeze(s1, 2), Unsqueeze(s2, 3)>>

\* Where a forward pass ends: with a result of some shape, or with an
\* exception raised at some statement.
KOk(sq) == [status |-> "ok", stage |-> "", shape |-> sq]
KError(stage) == [status |-> "error", stage |-> stage, shape |-> <<>>]

\* The shapes of SpectralAutoregressiveFlowKernel.forward: x1, x2 divided by
\* the lengthscale (of shape [1, 1]), the grid, the difference, the product
\* with the samples Z of shape [S, num_dims], the sum over the last axis, the
\* cosine and the mean over the sample axis.  weights: the shape the
\* normalized weights are viewed as, <<>> when there are none.
ForwardShape(x1, x2, diag, numDims, S, weights) ==
    LET d1 == Broadcast(x1, <<1, 1>>).shape
        d2 == Broadcast(x2, <<1, 1>>).shape
        g == create_input_grid(d1, d2, diag)
        diffs == Broadcast(g[1], g[2])
        Z == <<S, numDims>>
        zz == IF diag THEN Unsqueeze(Z, 2) ELSE Unsqueeze(Unsqueeze(Z, 2), 2)
        prod == Broadcast(zz, Unsqueeze(diffs.shape, IF diag THEN 3 ELSE 4))
        summed == Reduce(prod.shape, 1)
        values == IF weights = <<>> THEN Shape(summed) ELSE Broadcast(summed, weights)
    IN IF ~diffs.ok THEN KError("subtract")
       ELSE IF ~prod.ok THEN KError("multiply")
       ELSE IF ~values.ok THEN KError("weights")
       ELSE KOk(Reduce(values.shape, IF diag THEN 2 ELSE 3))

RECURSIVE Gcd(_, _)
Gcd(a, b) == IF b = 0 THEN a ELSE Gcd(b, a % b)

Abs(a) == IF a < 0 THEN 0 - a ELSE a

\* Rationals as <<numerator, denominator>>, the denominator positive; two
\* are equal when they agree in lowest terms.
Lowest(a) == LET g == Gcd(Abs(a[1]), a[2]) IN <<a[1] \div g, a[2] \div g>>

RatEq(a, b) == Lowest(a) = Lowest(b)

RECURSIVE SumSeq(_)
SumSeq(sq) == IF sq = <<>> THEN 0 ELSE sq[1] + SumSeq(Tail(sq))

\* Element k of a vector that broadcasts against a longer one.
At(v, k) == IF Len(v) = 1 THEN v[1] ELSE v[k]

\* x.div(lengthscale), for coordinates that are multiples of the lengthscale.
Div(row, l) == [k \in 1..Len(row) |-> row[k] \div l]

\* (Z * diffs).sum(-1) for one sample z and one pair of points.
Dot(z, diffs) ==
    SumSeq([k \in 1..Max(Len(z), Len(diffs)) |-> At(z, k) * At(diffs, k)])

\* cos(2 pi t / 4): frequencies are counted in quarter cycles per unit.
CosQuarter(t) == IF t % 4 = 0 THEN 1 ELSE IF t % 4 = 2 THEN -1 ELSE 0

\* Mutant of Diffs: the first point is not reduced by the second.
Diffs_FirstPoint(k) == Div(k.row1, k.lengthscale)

\* The difference of the two scaled points.
Diffs(k) ==
    LET r1 == Div(k.row1, k.lengthscale)
        r2 == Div(k.row2, k.lengthscale)
    IN [j \in 1..Len(r1) |-> r1[j] - r2[j]]

\* The samples are given as groups of equal samples: z the frequency vector,
\* p its density under the flow (exp of log_prob), count how many of the
\* drawn samples equal it.
SampleCount(samples) == SumSeq([g \in 1..Len(samples) |-> samples[g].count])

\* .cos().mean(dim): the plain Monte-Carlo average of one entry.
PlainEntry(k) ==
    <<SumSeq([g \in 1..Len(k.samples) |->
                 k.samples[g].count * CosQuarter(Dot(k.samples[g].z, Diffs(k)))]),
      SampleCount(k.samples)>>

\* exp(logsumexp(log_probs)): the total density of the drawn samples.
TotalDensity(samples) == SumSeq([g \in 1..Len(samples) |-> samples[g].count * samples[g].p])

\* norm_probs = exp(log_probs - logsumexp(log_probs)), summed over the samples.
WeightTotal(k) == <<TotalDensity(k.samples), TotalDensity(k.samples)>>

\* sum over the samples of values = cos(...) * norm_probs, for one entry.
WeightedSum(k) ==
    <<SumSeq([g \in 1..Len(k.samples) |->
                 k.samples[g].count * k.samples[g].p
                   * CosQuarter(Dot(k.samples[g].z, Diffs(k)))]),
      TotalDensity(k.samples)>>

\* K = values.mean(sample axis): the weighted terms averaged over the samples.
WeightedEntry(k) ==
    LET v == WeightedSum(k) IN <<v[1], v[2] * SampleCount(k.samples)>>

\* forward(x1, x2, diag) of the plain kernel and of the importance-weighted
\* (Trapezoidal) one: the result's shape or the exception, and the value of
\* the entry for the pair of points (row1, row2).
KernelForward(k, diag) ==
    LET weighted == k.variant = "weighted"
        S == IF weighted THEN NumSamplesWeighted ELSE NumSamples
        w == IF ~weighted THEN <<>> ELSE IF diag THEN <<S, 1>> ELSE <<S, 1, 1>>
        sh == ForwardShape(k.x1, k.x2, diag, k.num_dims, S, w)
    IN [status |-> sh.status, stage |-> sh.stage, shape |-> sh.shape, diag |-> diag,
        entry |-> IF sh.status # "ok" THEN <<0, 1>>
                  ELSE IF weighted THEN WeightedEntry(k) ELSE PlainEntry(k),
        wsum |-> IF sh.status = "ok" /\ weighted THEN WeightTotal(k) ELSE <<0, 1>>]

NoOut ==
    [status |-> "none", stage |-> "", shape |-> <<>>, diag |-> FALSE,
     entry |-> <<0, 1>>, wsum |-> <<0, 1>>]

\* The evaluation before the last one: its result, and whether the last
\* evaluation drew other samples than it did.
NoPrev == [out |-> NoOut, other |-> FALSE]

NoKernel ==
    [variant |-> "plain", num_dims |-> 1, x1 |-> <<1, 1>>, x2 |-> <<1, 1>>,
     lengthscale |-> 1, row1 |-> <<0>>, row2 |-> <<0>>,
     samples |-> <<[z |-> <<0>>, p |-> 1, count |-> NumSamples]>>, out |-> NoOut,
     prev |-> NoPrev, dsf |-> KernelInit("plain", 1, DefaultArg)]

----------------------------------------------------------------------------
(* The state machine *)

Blank ==
    [op |-> "none", inst |-> 0, mode |-> FALSE, prior |-> FALSE, ret |-> FALSE,
     x |-> 0, tr |-> FALSE, ev |-> <<>>, err |-> NoError, initPrior |-> NoPrior,
     q |-> NoQ, fwd |-> <<>>, result |-> <<>>, seen |-> -1, arg |-> 0,
     dropped |-> {}, view |-> <<>>]

\* Mutant of Store: _memoize_cache is one dictionary shared by all
\* strategies (a class attribute).
Store_SharedCache(i, f) ==
    /\ training' = [training EXCEPT ![i] = f.tr]
    /\ cache' = [j \in Instances |-> f.c]
    /\ initialized' = [initialized EXCEPT ![i] = f.init]
    /\ gen' = [gen EXCEPT ![genOf[i]] = f.g]
    /\ initCount' = [initCount EXCEPT ![i] = f.ic]
    /\ inducing_points' = [inducing_points EXCEPT ![i] = f.pts]

\* The frame written back to the strategy and to the generator it references.
Store(i, f) ==
    /\ training' = [training EXCEPT ![i] = f.tr]
    /\ cache' = [cache EXCEPT ![i] = f.c]
    /\ initialized' = [initialized EXCEPT ![i] = f.init]
    /\ gen' = [gen EXCEPT ![genOf[i]] = f.g]
    /\ initCount' = [initCount EXCEPT ![i] = f.ic]
    /\ inducing_points' = [inducing_points EXCEPT ![i] = f.pts]

\* strategy(x, prior=..., return_map_dist=...)
call(i, x, prior, ret, priorFails, initFails, a, b) ==
    \E o \in {CallEffect(Frame(i), x, prior, ret, priorFails, initFails, a, b)} :
    /\ Store(i, o.f)
    /\ last' = [Blank EXCEPT !.op = "call", !.inst = i, !.prior = prior, !.ret = ret,
                             !.x = x, !.tr = training[i], !.ev = o.f.ev,
                             !.err = o.f.err, !.initPrior = o.f.initPrior,
                             !.dropped = o.f.dropped, !.view = o.f.view,
                             !.q = o.q, !.fwd = o.fwd, !.result = o.result]
    /\ UNCHANGED <<genOf, pver, precond, kernel>>

\* strategy.train(mode)
train(i, mode) ==
    \E f \in {TrainEffect(Frame(i), mode)} :
    /\ Store(i, f)
    /\ last' = [Blank EXCEPT !.op = "train", !.inst = i, !.mode = mode,
                             !.tr = training[i], !.ev = f.ev, !.dropped = f.dropped]
    /\ UNCHANGED <<genOf, pver, precond, kernel>>

\* strategy.kl_divergence()
kl_divergence(i, priorFails, klFails) ==
    \E o \in {KlEffect(Frame(i), precond, priorFails, klFails)} :
    /\ Store(i, o.f)
    /\ precond' = o.left
    /\ last' = [Blank EXCEPT !.op = "kl", !.inst = i, !.tr = training[i],
                             !.ev = o.f.ev, !.err = o.f.err, !.seen = o.seen,
                             !.arg = precond]
    /\ UNCHANGED <<genOf, pver, kernel>>

\* strategy._cholesky_factor(m), as a concrete forward calls it
cholesky_factor(i, m) ==
    \E f \in {cholesky_factor_cached(Frame(i), m)} :
    /\ Store(i, f)
    /\ last' = [Blank EXCEPT !.op = "chol", !.inst = i, !.tr = training[i],
                             !.ev = f.ev, !.arg = m,
                             !.result = <<get_from_cache(f.c, CHOL)>>]
    /\ UNCHANGED <<genOf, pver, precond, kernel>>

\* An optimizer step: the model's hyperparameters and the learnable
\* inducing points change; points registered as a buffer do not.
param_update ==
    /\ pver < MaxVer
    /\ pver' = pver + 1
    /\ inducing_points' = [i \in Instances |->
                             IF inducing_points[i].learn
                             THEN [inducing_points[i] EXCEPT !.val = @ + 1]
                             ELSE inducing_points[i]]
    /\ last' = [Blank EXCEPT !.op = "param_update"]
    /\ UNCHANGED <<training, initialized, cache, genOf, gen, precond, initCount, kernel>>

\* The caller changes the global preconditioner-size setting.
set_precond(v) ==
    /\ v # precond
    /\ precond' = v
    /\ last' = [Blank EXCEPT !.op = "set_precond", !.arg = v]
    /\ UNCHANGED <<training, initialized, cache, genOf, gen, pver, initCount, kernel,
                   inducing_points>>

\* Two learnable inducing points on the line, given as a 1-D tensor.
DefaultPoints == [i \in Instances |-> Register(<<2>>, TRUE)]

\* The state after the constructors: Module.__init__ leaves training on,
\* no _memoize_cache attribute exists, the buffer holds 0.
InitStrategies ==
    /\ training = [i \in Instances |-> TRUE]
    /\ initialized = [i \in Instances |-> 0]
    /\ cache = [i \in Instances |-> NoCache]
    /\ initCount = [i \in Instances |-> 0]
    /\ pver = 0
    /\ precond = 15
    /\ last = Blank

\* One strategy with its own generator.
Init ==
    /\ InitStrategies
    /\ kernel = NoKernel
    /\ inducing_points = DefaultPoints
    /\ genOf = [i \in Instances |-> i]
    /\ \E k \in Kinds :
          gen = [g \in Generators |->
                   [kind |-> IF g = 1 THEN k ELSE "MultivariateNormal", by |-> 0, ver |-> 0, batch |-> <<>>]]

StrategyNext(i) ==
    \/ \E x \in Xs, ret \in BOOLEAN : call(i, x, TRUE, ret, FALSE, FALSE, 1, 1)
    \/ \E ret \in BOOLEAN, fault \in Faults, a, b \in ObjIds :
          call(i, 1, FALSE, ret, fault = "prior", fault = "init", a, b)
    \/ \E mode \in BOOLEAN : train(i, mode)
    \/ \E priorFails, klFails \in BOOLEAN : kl_divergence(i, priorFails, klFails)
    \/ \E m \in 1..MaxMatrix : cholesky_factor(i, m)

Next ==
    \/ StrategyNext(1)
    \/ param_update
    \/ \E v \in PrecondSizes : set_precond(v)

Spec == Init /\ [][Next]_vars

\* Two strategies on one model, each with its own generator or both with
\* the same one.
InitTwo ==
    /\ InitStrategies
    /\ kernel = NoKernel
    /\ inducing_points = DefaultPoints
    /\ genOf \in {[i \in Instances |-> i], [i \in Instances |-> 1]}
    /\ \E k \in {"MultivariateNormal", "Delta"} :
          gen = [g \in Generators |-> [kind |-> k, by |-> 0, ver |-> 0, batch |-> <<>>]]

NextTwo ==
    \/ \E i \in Instances :
          \/ \E prior \in BOOLEAN : call(i, 1, prior, TRUE, FALSE, FALSE, 1, 2)
          \/ \E mode \in BOOLEAN : train(i, mode)
          \/ kl_divergence(i, FALSE, FALSE)
    \/ param_update

SpecTwo == InitTwo /\ [][NextTwo]_vars

\* One strategy constructed from a tensor of one, two or three axes, as a
\* parameter or as a buffer, with a generator of some batch shape.
PointInputs ==
    UNION {[1..r -> 1..MaxInduc] : r \in 1..3}

GeneratorBatchShapes == {<<>>, <<2>>}

InitPoints ==
    /\ InitStrategies
    /\ kernel = NoKernel
    /\ genOf = [i \in Instances |-> i]
    /\ \E input \in PointInputs, learn \in BOOLEAN :
          inducing_points = [i \in Instances |-> Register(input, learn)]
    /\ \E k \in {"MultivariateNormal", "Delta"}, b \in GeneratorBatchShapes :
          gen = [g \in Generators |-> [kind |-> k, by |-> 0, ver |-> 0, batch |-> b]]

NextPoints ==
    \/ \E prior \in BOOLEAN : call(1, 1, prior, FALSE, FALSE, FALSE, 1, 2)
    \/ \E mode \in BOOLEAN : train(1, mode)
    \/ kl_divergence(1, FALSE, FALSE)
    \/ param_update

SpecPoints == InitPoints /\ [][NextPoints]_vars

----------------------------------------------------------------------------
(* The kernels' state machine: a kernel, inputs, and forward applied to them *)

KernelVariants == {"plain", "weighted"}
BatchShapes == {<<>>, <<2>>}
ValueDims == {1, 2}
Coords == {0, 2}
Lengthscales == {1, 2}
Freqs == 0..2
Densities == {1, 2}

SamplesOf(variant) == IF variant = "weighted" THEN NumSamplesWeighted ELSE NumSamples

\* Batches of S samples with frequencies in freqs: all samples equal, or of
\* two kinds with the densities of a pair in dens, the first kind drawn c
\* times for some c in counts.
Batches(S, nd, freqs, dens, counts) ==
    {<<[z |-> z, p |-> pp[1], count |-> S]>> : z \in [1..nd -> freqs], pp \in dens}
    \cup
    {<<[z |-> zz[1], p |-> pp[1], count |-> c], [z |-> zz[2], p |-> pp[2], count |-> S - c]>> :
        zz \in {y \in [1..nd -> freqs] \X [1..nd -> freqs] : y[1] # y[2]},
        pp \in dens,
        c \in counts}

\* The sample batches considered for one evaluation.
SampleBatches(S, nd) == Batches(S, nd, Freqs, Densities \X Densities, {1, S \div 2})

\* The sample batches considered when a kernel is evaluated repeatedly.
RepeatFreqs == {0, 1}
RepeatBatches(S, nd) == Batches(S, nd, RepeatFreqs, {<<1, 2>>}, {S \div 2})

\* A kernel and inputs of every shape (also mismatched ones), all
\* coordinates and frequencies zero.
ShapeCase(v, nd, D, n, m, b) ==
    [variant |-> v, num_dims |-> nd, x1 |-> b \o <<n, D>>, x2 |-> b \o <<m, D>>,
     lengthscale |-> 1, row1 |-> [j \in 1..D |-> 0], row2 |-> [j \in 1..D |-> 0],
     samples |-> <<[z |-> [j \in 1..nd |-> 0], p |-> 1, count |-> SamplesOf(v)]>>,
     out |-> NoOut, prev |-> NoPrev, dsf |-> KernelInit(v, nd, PyInt(1))]

\* A kernel and well-shaped inputs, with a pair of points (r1, r2) and a
\* sample batch sb.
ValueCase(v, D, l, r1, r2, sb) ==
    [variant |-> v, num_dims |-> D, x1 |-> <<MaxPts, D>>, x2 |-> <<MaxPts, D>>,
     lengthscale |-> l, row1 |-> r1, row2 |-> r2, samples |-> sb, out |-> NoOut,
     prev |-> NoPrev, dsf |-> KernelInit(v, D, PyInt(1))]

InitKernel ==
    /\ InitStrategies
    /\ inducing_points = DefaultPoints
    /\ genOf = [i \in Instances |-> i]
    /\ gen = [g \in Generators |-> [kind |-> "MultivariateNormal", by |-> 0, ver |-> 0, batch |-> <<>>]]
    /\ \E v \in KernelVariants :
          \/ \E nd \in 1..MaxDim, D \in 1..MaxDim, n \in 1..MaxPts, m \in 1..MaxPts,
                b \in BatchShapes :
                kernel = ShapeCase(v, nd, D, n, m, b)
          \/ \E D \in ValueDims :
                \E sb \in SampleBatches(SamplesOf(v), D) :
                   \E l \in Lengthscales, r1 \in [1..D -> Coords], r2 \in [1..D -> Coords] :
                      kernel = ValueCase(v, D, l, r1, r2, sb)

\* kernel.forward(x1, x2, diag=diag); sb is the batch rsample draws in this
\* evaluation.
forward(diag, sb) ==
    /\ kernel.dsf.status = "ok"
    /\ \E k \in {[kernel EXCEPT !.samples = sb]} :
          kernel' = [k EXCEPT !.out = KernelForward(k, diag),
                              !.prev = [out |-> kernel.out, other |-> sb # kernel.samples]]
    /\ UNCHANGED <<training, initialized, cache, genOf, gen, pver, precond, initCount, last,
                   inducing_points>>

\* One evaluation per batch: the batch is the one of the initial state.
NextKernel == \E diag \in BOOLEAN : forward(diag, kernel.samples)

SpecKernel == InitKernel /\ [][NextKernel]_vars

\* Inputs waiting for a kernel that is constructed first.
ConstructCase(D, n, m, b) ==
    [NoKernel EXCEPT !.x1 = b \o <<n, D>>, !.x2 = b \o <<m, D>>,
                     !.row1 = [j \in 1..D |-> 0], !.row2 = [j \in 1..D |-> 0],
                     !.dsf = NotBuilt]

\* The argument given besides num_dims: none, an integer, a list.
MaxStack == 3
CtorArgs == {DefaultArg, PyList(<<8, 8>>)} \cup {PyInt(k) : k \in 1..MaxStack}

InitConstruct ==
    /\ InitStrategies
    /\ inducing_points = DefaultPoints
    /\ genOf = [i \in Instances |-> i]
    /\ gen = [g \in Generators |->
                [kind |-> "MultivariateNormal", by |-> 0, ver |-> 0, batch |-> <<>>]]
    /\ \E D \in 1..MaxDim, n \in 1..MaxPts, m \in 1..MaxPts, b \in BatchShapes :
          kernel = ConstructCase(D, n, m, b)

\* Kernel(num_dims) / Kernel(num_dims, arg)
construct(v, nd, arg) ==
    /\ kernel.dsf.status = "none"
    /\ kernel' = [kernel EXCEPT !.variant = v, !.num_dims = nd,
                                !.samples = <<[z |-> [j \in 1..nd |-> 0], p |-> 1,
                                               count |-> SamplesOf(v)]>>,
                                !.dsf = KernelInit(v, nd, arg)]
    /\ UNCHANGED <<training, initialized, cache, genOf, gen, pver, precond, initCount, last,
                   inducing_points>>

NextConstruct ==
    \/ \E v \in KernelVariants, nd \in 1..MaxDim, arg \in CtorArgs : construct(v, nd, arg)
    \/ \E diag \in BOOLEAN : forward(diag, kernel.samples)

SpecConstruct == InitConstruct /\ [][NextConstruct]_vars

\* Repeated evaluations of a kernel on one point set x (x1 = x2 = x), each
\* drawing its own batch; (row1, row2) is the pair (x[i], x[i]).
SelfCase(v, D, b, l, r) ==
    [variant |-> v, num_dims |-> D, x1 |-> b \o <<MaxPts, D>>, x2 |-> b \o <<MaxPts, D>>,
     lengthscale |-> l, row1 |-> r, row2 |-> r, samples |-> <<>>, out |-> NoOut,
     prev |-> NoPrev, dsf |-> KernelInit(v, D, PyInt(1))]

InitSelf ==
    /\ InitStrategies
    /\ inducing_points = DefaultPoints
    /\ genOf = [i \in Instances |-> i]
    /\ gen = [g \in Generators |-> [kind |-> "MultivariateNormal", by |-> 0, ver |-> 0, batch |-> <<>>]]
    /\ \E v \in KernelVariants, D \in ValueDims, b \in BatchShapes, l \in Lengthscales :
          \E r \in [1..D -> Coords] : kernel = SelfCase(v, D, b, l, r)

NextSelf ==
    \E diag \in BOOLEAN :
        \E sb \in RepeatBatches(SamplesOf(kernel.variant), kernel.num_dims) : forward(diag, sb)

SpecSelf == InitSelf /\ [][NextSelf]_vars

----------------------------------------------------------------------------
(* Reading the observation *)

InSeq(e, sq) == \E k \in 1..Len(sq) : sq[k] = e

\* The position of the first e in sq, 0 when there is none.
IndexOf(e, sq) ==
    IF InSeq(e, sq) THEN CHOOSE k \in 1..Len(sq) : sq[k] = e /\ \A j \in 1..(k - 1) : sq[j] # e
    ELSE 0

NonPriorInvocation(l) == l.op = "call" /\ ~l.prior
Returned(l) == l.err = NoError
Hits == {"prior_hit", "q_hit", "chol_hit"}

----------------------------------------------------------------------------
(* C1 *)

\* C1, as stated: the strategy becomes Initialized on the first invocation,
\* whichever it is, so after any invocation has returned the flag is 1.
C1_FirstInvocationInitializes ==
    (last.op = "call" /\ Returned(last)) => initialized[last.inst] = 1

\* C1, amended: the strategy moves from Uninitialized to Initialized at most
\* once, in the first invocation with prior=false in which the prior
\* computation and initialize_variational_distribution both return; a
\* non-prior invocation that returns leaves the flag at 1; once
\* initialize_variational_distribution has returned it is never called again,
\* and once the flag is 1 no operation sets it back to 0.
C1_InitStep ==
    \A i \in Instances :
        /\ initialized[i] = 1 => initialized'[i] = 1
        /\ (initialized[i] = 1 /\ last'.inst = i) => ~InSeq("initialize", last'.ev)
        /\ initCount'[i] = initialized'[i]
        /\ (initialized[i] = 0 /\ initialized'[i] = 1) =>
              /\ NonPriorInvocation(last') /\ last'.inst = i
              /\ InSeq("initialize", last'.ev)
              /\ last'.err.type \notin {"PriorError", "InitError"}
        /\ (NonPriorInvocation(last') /\ last'.inst = i /\ Returned(last')) =>
              initialized'[i] = 1

C1_InitializedOnce == [][C1_InitStep]_vars

\* A second non-prior invocation that found the flag set and did not
\* initialize again.
C1_Witness ==
    /\ NonPriorInvocation(last) /\ Returned(last)
    /\ initCount[last.inst] = 1
    /\ InSeq("init_check", last.ev) /\ ~InSeq("initialize", last.ev)

----------------------------------------------------------------------------
(* C2 *)

\* C2: train(mode) deletes the whole cache on every transition between
\* training and evaluation mode and on every train(true) issued while
\* training, and the operation that follows recomputes whatever it reads;
\* train(false) while in evaluation mode leaves the cache as it is.
C2_TrainStep ==
    /\ last'.op = "train" =>
          IF training[last'.inst] # last'.mode \/ last'.mode
          THEN /\ CacheEntries(cache'[last'.inst]) = EmptyDict
               /\ last'.dropped = DOMAIN CacheEntries(cache[last'.inst])
          ELSE cache'[last'.inst] = cache[last'.inst]
    /\ (/\ last.op = "train" /\ (last.tr # last.mode \/ last.mode)
        /\ last'.op \in {"call", "kl", "chol"} /\ last'.inst = last.inst) =>
          \A k \in 1..Len(last'.ev) : last'.ev[k] \notin Hits

C2_TrainInvalidates == [][C2_TrainStep]_vars

\* train(true) while training, with entries in the cache, deleted them.
C2_Witness ==
    /\ last.op = "train" /\ last.tr /\ last.mode
    /\ last.dropped # {}
    /\ ~cache[last.inst].has

----------------------------------------------------------------------------
(* C3 *)

\* C3: a non-prior invocation in training mode invalidates first, checks the
\* initialization second and retrieves q(u) third; it reads no entry that
\* was cached before it (no cache hit), and the prior entry its own
\* initialization step creates is in the cache when q(u) is retrieved and
\* when the invocation ends.
C3_TrainingCallOrder ==
    (NonPriorInvocation(last) /\ last.tr) =>
        /\ last.ev[1] = "invalidate"
        /\ last.ev[2] = "init_check"
        /\ \A k \in 2..Len(last.ev) : last.ev[k] # "invalidate"
        /\ \A k \in 1..Len(last.ev) : last.ev[k] \notin Hits
        /\ last.err.type \in {"", "RuntimeError"} =>
              /\ IndexOf("q_compute", last.ev) > 2
              /\ get_from_cache(cache[last.inst], QU) = last.q
        /\ InSeq("initialize", last.ev) =>
              /\ IndexOf("prior_compute", last.ev) = 3
              /\ IndexOf("initialize", last.ev) = 4
              /\ is_in_cache(cache[last.inst], PRIOR)
              /\ get_from_cache(cache[last.inst], PRIOR) = last.initPrior
              /\ last.initPrior = PriorValue(last.inst, pver)

\* A training-mode invocation that dropped cached entries, initialized, and
\* returned with the new prior entry cached.
C3_Witness ==
    /\ NonPriorInvocation(last) /\ last.tr /\ Returned(last)
    /\ last.dropped # {}
    /\ InSeq("initialize", last.ev)
    /\ is_in_cache(cache[last.inst], PRIOR)

----------------------------------------------------------------------------
(* C4 *)

Supported == {"MultivariateNormal", "Delta"}
InvalidDistribution(l) == NonPriorInvocation(l) /\ l.err.type = "RuntimeError"

\* C4, as stated: an invocation that fails on an unsupported q(u) leaves the
\* cache with the set of entries it had before.
C4_FailedCallKeepsCache ==
    [][InvalidDistribution(last') =>
          DOMAIN CacheEntries(cache'[last'.inst]) = DOMAIN CacheEntries(cache[last'.inst])]_vars

\* C4, amended: an invocation whose q(u) is neither a MultivariateNormal nor
\* a Delta raises an error that names the offending type and returns no
\* predictive distribution, in both modes, initialized or not; its cache
\* writes stay: afterwards the cache holds the entries it had before (none of
\* them in training mode, where they are dropped first), plus the q(u) entry
\* that was dispatched on, plus the prior entry when the invocation computed
\* the prior.
C4_FailedCallStep ==
    LET i == last'.inst
        before == IF last'.tr THEN EmptyDict ELSE CacheEntries(cache[i])
        after == CacheEntries(cache'[i])
    IN /\ (NonPriorInvocation(last') /\ last'.q # NoQ /\ last'.q.kind \notin Supported) =>
              InvalidDistribution(last')
       /\ InvalidDistribution(last') =>
              /\ last'.q.kind \notin Supported
              /\ last'.err.names = last'.q.kind
              /\ last'.result = <<>> /\ last'.fwd = <<>>
              /\ DOMAIN after = DOMAIN before \cup {QU}
                                  \cup (IF InSeq("prior_compute", last'.ev) THEN {PRIOR} ELSE {})
              /\ \A n \in DOMAIN before : after[n] = before[n]
              /\ after[QU] = last'.q

C4_FailedCallWritesCache == [][C4_FailedCallStep]_vars

\* A failed invocation that wrote the prior entry and the q(u) entry.
C4_Witness ==
    /\ InvalidDistribution(last)
    /\ InSeq("prior_compute", last.ev) /\ InSeq("q_compute", last.ev)
    /\ DOMAIN CacheEntries(cache[last.inst]) = {PRIOR, QU}

----------------------------------------------------------------------------
(* C5 *)

\* C5: an invocation with prior=true returns the model's evaluation at x and
\* takes no other step: the cache, the flag, the generator and the mode are
\* as before, in training mode as in evaluation mode.
C5_PriorStep ==
    (last'.op = "call" /\ last'.prior) =>
        /\ last'.result = <<[src |-> "model.forward", id |-> last'.x]>>
        /\ Returned(last') /\ last'.ev = <<>> /\ last'.dropped = {}
        /\ cache' = cache
        /\ initialized' = initialized
        /\ initCount' = initCount
        /\ gen' = gen
        /\ training' = training

C5_PriorBypass == [][C5_PriorStep]_vars

\* A prior=true invocation in training mode, on an uninitialized strategy
\* whose cache holds entries.
C5_Witness ==
    /\ last.op = "call" /\ last.prior /\ last.tr
    /\ initialized[last.inst] = 0
    /\ is_in_cache(cache[last.inst], QU)

----------------------------------------------------------------------------
(* C6 *)

----------------------------------------------------------------------------
(* C7 *)

\* C7: kl_divergence computes under max_preconditioner_size = 0 whatever the
\* ambient value, and the ambient value is in force again once it has
\* returned or raised.
C7_KlPreconditioner ==
    last.op = "kl" => (last.seen = 0 /\ precond = last.arg)

\* A kl_divergence that raised under a non-default ambient setting.
C7_Witness ==
    /\ last.op = "kl" /\ ~Returned(last)
    /\ last.arg = 100 /\ precond = 100 /\ last.seen = 0

----------------------------------------------------------------------------
(* C8 *)

\* What the results of strategy j are computed from.
OwnState(j) == <<training[j], initialized[j], cache[j], initCount[j]>>

\* C8, as stated: whatever the other strategy does, also on a shared model
\* and a shared generator, a strategy's results are those of a run alone;
\* alone, the q(u) it dispatches on carries the generator's default
\* parameters or the parameters its own initialization set.
C8_ResultsAsAlone ==
    (NonPriorInvocation(last) /\ last.q # NoQ) => last.q.by \in {0, last.inst}

\* C8, amended: the cache, the flag and the mode are instance-local: an
\* operation on one strategy leaves them unchanged in the other, also when
\* both reference the same model and the same generator; the generator's
\* parameters are not: an operation leaves the other strategy's generator
\* unchanged, and every q(u) a strategy dispatches on carries default
\* parameters or those of its own initialization, only when the two
\* strategies reference different generators.
C8_LocalStep ==
    \A i, j \in Instances :
        (last'.inst = i /\ j # i) =>
            /\ OwnState(j)' = OwnState(j)
            /\ genOf[j] # genOf[i] => gen'[genOf[j]] = gen[genOf[j]]

C8_InstanceLocal ==
    /\ [](genOf[1] # genOf[2] => C8_ResultsAsAlone)
    /\ [][C8_LocalStep]_vars

\* Both strategies, on different generators, have initialized and hold
\* cache entries; the last invocation dispatched on its own q(u).
C8_Witness ==
    /\ genOf[1] # genOf[2]
    /\ initialized[1] = 1 /\ initialized[2] = 1
    /\ is_in_cache(cache[1], PRIOR) /\ is_in_cache(cache[2], PRIOR)
    /\ NonPriorInvocation(last) /\ Returned(last) /\ last.inst = 1 /\ last.q.by = 1
    /\ gen[2].by = 2

----------------------------------------------------------------------------
(* C9 *)

Evaluated == kernel.out.status # "none"

\* The sizes of the kernel's inputs: x1 is [*batch, n, D], x2 is [*batch, m, D].
PointsOf(sq) == sq[Len(sq) - 1]
DimOf(sq) == sq[Len(sq)]

Mismatched ==
    \/ DimOf(kernel.x1) # kernel.num_dims
    \/ kernel.out.diag /\ PointsOf(kernel.x1) # PointsOf(kernel.x2)

\* C9: an evaluation whose inputs' trailing dimension differs from num_dims,
\* or with diag=true and n # m, raises a shape-mismatch error at the grid
\* construction and returns no covariance.
C9_MismatchRejected ==
    (Evaluated /\ Mismatched) =>
        (kernel.out.status = "error" /\ kernel.out.stage = "grid")

----------------------------------------------------------------------------
(* C10 *)

\* The self-normalized importance-sampling estimate of one entry: the sum
\* over the samples of w_s * cos(2 pi (diff . z_s)), w_s = p_s / sum of p.
SelfNormalizedEstimate(k) ==
    <<SumSeq([g \in 1..Len(k.samples) |->
                 k.samples[g].count * k.samples[g].p
                   * CosQuarter(Dot(k.samples[g].z, Diffs(k)))]),
      SumSeq([g \in 1..Len(k.samples) |-> k.samples[g].count * k.samples[g].p])>>

\* C10: the importance-weighted kernel's normalized weights sum to 1 over
\* the samples, and every entry of its result is the self-normalized
\* estimate (1 where the difference is zero).
C10_SelfNormalized ==
    (Evaluated /\ kernel.variant = "weighted" /\ kernel.out.status = "ok") =>
        /\ RatEq(kernel.out.wsum, <<1, 1>>)
        /\ RatEq(kernel.out.entry, SelfNormalizedEstimate(kernel))
        /\ (\A j \in 1..Len(kernel.row1) : kernel.row1[j] = kernel.row2[j]) =>
              RatEq(kernel.out.entry, <<1, 1>>)

----------------------------------------------------------------------------
(* C11 *)

\* The last two evaluations returned, one with diag=true and one with
\* diag=false, on the same point set and for the pair (x[i], x[i]).
DiagAndFull ==
    /\ kernel.out.status = "ok" /\ kernel.prev.out.status = "ok"
    /\ kernel.out.diag # kernel.prev.out.diag
    /\ kernel.x1 = kernel.x2 /\ kernel.row1 = kernel.row2

\* C11: entry i of evaluate(x, x, diag=true) equals entry (i, i) of
\* evaluate(x, x, diag=false), whatever batches the two evaluations drew
\* (1 for the plain variant); the diagonal result has the full result's
\* shape without its last axis.
C11_SelfConsistent ==
    DiagAndFull =>
        /\ RatEq(kernel.out.entry, kernel.prev.out.entry)
        /\ kernel.variant = "plain" => RatEq(kernel.out.entry, <<1, 1>>)
        /\ LET dg == IF kernel.out.diag THEN kernel.out ELSE kernel.prev.out
               full == IF kernel.out.diag THEN kernel.prev.out ELSE kernel.out
           IN full.shape = dg.shape \o <<PointsOf(kernel.x1)>>

\* A diagonal evaluation after a full one, at a point away from the origin,
\* the two having drawn different batches of two kinds of samples.
C11_Witness ==
    /\ DiagAndFull /\ kernel.out.diag
    /\ kernel.row1 # [j \in 1..Len(kernel.row1) |-> 0]
    /\ kernel.prev.other
    /\ Len(kernel.samples) = 2

----------------------------------------------------------------------------
(* C12 *)

\* The leading batch axes of an input of shape [*batch, n, D].
BatchOf(sq) == SubSeq(sq, 1, Len(sq) - 2)

\* x1 is [*batch, n, D] and x2 is [*batch, m, D] with D the kernel's
\* num_dims, and n = m when the diagonal is asked for.
WellShaped ==
    /\ DimOf(kernel.x1) = kernel.num_dims /\ DimOf(kernel.x2) = kernel.num_dims
    /\ BatchOf(kernel.x1) = BatchOf(kernel.x2)
    /\ kernel.out.diag => PointsOf(kernel.x1) = PointsOf(kernel.x2)

\* C12: on well-shaped inputs both variants return a result of shape
\* [*batch, n, m] for diag=false and [*batch, n] for diag=true, with an empty
\* batch shape or not; no sample axis and no D axis is left.
C12_ResultShape ==
    (Evaluated /\ WellShaped) =>
        /\ kernel.out.status = "ok"
        /\ kernel.out.shape =
              BatchOf(kernel.x1) \o (IF kernel.out.diag
                                     THEN <<PointsOf(kernel.x1)>>
                                     ELSE <<PointsOf(kernel.x1), PointsOf(kernel.x2)>>)

\* The weighted kernel evaluated in full on batched inputs with n # m and
\* more than one dimension.
C12_Witness ==
    /\ Evaluated /\ WellShaped /\ ~kernel.out.diag
    /\ kernel.variant = "weighted"
    /\ BatchOf(kernel.x1) # <<>>
    /\ PointsOf(kernel.x1) > PointsOf(kernel.x2) /\ PointsOf(kernel.x2) > 1
    /\ kernel.num_dims > 1
    /\ Len(kernel.out.shape) = 3

----------------------------------------------------------------------------
(* C13 *)

\* The shape the claim gives the stored points of a given input.
C13_Shape ==
    \A i \in Instances :
        LET p == inducing_points[i] IN
        /\ Len(p.shape) >= 2 /\ DimOf(p.shape) >= 1
        /\ Len(p.input) = 1 => p.shape = <<p.input[1], 1>>
        /\ Len(p.input) >= 2 => p.shape = p.input

\* An invocation, train(mode) or kl_divergence leaves the stored points as
\* they are; a returned invocation handed forward a view whose last two
\* axes are the stored ones, under the generator's batch shape.
C13_Step ==
    last'.op \in {"call", "train", "kl"} =>
        /\ inducing_points' = inducing_points
        /\ (NonPriorInvocation(last') /\ Returned(last')) =>
              LET sh == inducing_points[last'.inst].shape IN
              last'.view = gen[genOf[last'.inst]].batch \o SubSeq(sh, Len(sh) - 1, Len(sh))

\* C13: the stored inducing points have shape [*batch, M, D] with D >= 1: a
\* 1-D input of length M is stored as [M, 1], an input of two or more axes
\* as it is, and no invocation, train(mode) or kl_divergence changes the
\* stored points or their shape, parameter or buffer.
C13_PointsKept == []C13_Shape /\ [][C13_Step]_vars

\* A buffer given as a 1-D tensor, after train(false), kl_divergence and an
\* invocation that expanded it to a batch.
C13_Witness ==
    /\ NonPriorInvocation(last) /\ Returned(last) /\ ~last.tr
    /\ ~inducing_points[1].learn
    /\ inducing_points[1].input = <<2>> /\ inducing_points[1].shape = <<2, 1>>
    /\ last.view = <<2, 2, 1>>
    /\ InSeq("prior_hit", last.ev)

----------------------------------------------------------------------------
(* C14 *)

\* C14: the prior handed to initialize_variational_distribution is p(u) at
\* the inducing points and model parameters of that moment, in either mode,
\* never a cache entry computed for earlier ones.
C14_InitFromCurrentPrior ==
    (NonPriorInvocation(last) /\ InSeq("initialize", last.ev)) =>
        last.initPrior = PriorValue(last.inst, pver)

----------------------------------------------------------------------------
(* C15 *)

\* How often e occurs in sq.
Count(e, sq) == Cardinality({k \in 1..Len(sq) : sq[k] = e})

\* The event logged when the member cached under a name is computed.
ComputeEvent(name) == IF name = PRIOR THEN "prior_compute" ELSE "q_compute"

\* A step of the strategy taken in evaluation mode that leaves it there.
C15_EvalStep ==
    \A i \in Instances :
      (~training[i] /\ ~training'[i]) =>
        \A name \in {PRIOR, QU} :
          \* an entry stays, and an access does not compute again
          /\ is_in_cache(cache[i], name) =>
                /\ is_in_cache(cache'[i], name)
                /\ get_from_cache(cache'[i], name) = get_from_cache(cache[i], name)
                /\ last'.inst = i => ~InSeq(ComputeEvent(name), last'.ev)
          \* a computation happens once, when there is no entry, and what it
          \* returns is the entry afterwards
          /\ (last'.inst = i /\ InSeq(ComputeEvent(name), last'.ev)) =>
                /\ ~is_in_cache(cache[i], name)
                /\ Count(ComputeEvent(name), last'.ev) = 1
                /\ last'.err.type # "PriorError" => is_in_cache(cache'[i], name)

\* C15: within an epoch in evaluation mode, over any invocations and
\* kl_divergence calls, the prior and q(u) are each computed at most once:
\* the first access creates the entry, every later access returns it without
\* computing again.
C15_ComputedOnce == [][C15_EvalStep]_vars

\* In evaluation mode, after the parameters have been updated, kl_divergence
\* read both entries from the cache.
C15_Witness ==
    /\ last.op = "kl" /\ ~last.tr /\ Returned(last)
    /\ InSeq("prior_hit", last.ev) /\ InSeq("q_hit", last.ev)
    /\ initialized[last.inst] = 1
    /\ get_from_cache(cache[last.inst], PRIOR).ver < pver

----------------------------------------------------------------------------
(* C16 *)

C16_CholStep ==
    LET i == last'.inst
        before == CacheEntries(cache[i])
        after == CacheEntries(cache'[i])
    IN
    \* a call of _cholesky_factor
    /\ last'.op = "chol" =>
          /\ IF is_in_cache(cache[i], CHOL)
             THEN /\ last'.ev = <<"chol_hit">>
                  /\ last'.result = <<get_from_cache(cache[i], CHOL)>>
                  /\ after = before
             ELSE /\ last'.ev = <<"chol_compute">>
                  /\ last'.result = <<[of |-> last'.arg, dtype |-> "double"]>>
                  /\ DOMAIN after = DOMAIN before \cup {CHOL}
                  /\ \A n \in DOMAIN before : after[n] = before[n]
          /\ get_from_cache(cache'[i], CHOL) = last'.result[1]
    \* between two calls the entry is dropped or left as it is
    /\ \A j \in Instances :
          (is_in_cache(cache[j], CHOL) /\ is_in_cache(cache'[j], CHOL)) =>
              get_from_cache(cache'[j], CHOL) = get_from_cache(cache[j], CHOL)
    \* an operation that invalidates drops it
    /\ (/\ last'.op \in {"call", "train"}
        /\ Len(last'.ev) > 0
        /\ InSeq(last'.ev[1], <<"invalidate", "delattr", "clear">>)) =>
              ~is_in_cache(cache'[i], CHOL)

\* C16: _cholesky_factor keeps one entry per epoch: the first call computes
\* the factor of its argument in double precision and stores it, later calls
\* return the stored factor without factorizing, and after an invalidation
\* the next call factorizes the matrix it is given.
C16_CholeskyCached == [][C16_CholStep]_vars

\* A call with another matrix that returned the stored factor of the first.
C16_Witness ==
    /\ last.op = "chol" /\ last.ev = <<"chol_hit">>
    /\ last.result[1].of # last.arg
    /\ last.result[1].dtype = "double"

----------------------------------------------------------------------------
(* C17 *)

\* C17: the q(u) a non-prior invocation dispatches on was obtained from the
\* generator at or after the initialization of the variational parameters,
\* never while the strategy was Uninitialized.
C17_QAfterInit ==
    (NonPriorInvocation(last) /\ last.q # NoQ) => last.q.init = 1

----------------------------------------------------------------------------
(* C18 *)

InitFailures == {"PriorError", "InitError"}

\* The last event of a log.
LastEvent(sq) == sq[Len(sq)]

C18_FailStep ==
    LET i == last'.inst IN
    NonPriorInvocation(last') =>
        \* the prior computation or the initialization raised: the invocation
        \* ends there with that error and the flag is still 0
        /\ last'.err.type \in InitFailures =>
              /\ initialized[i] = 0 /\ initialized'[i] = 0
              /\ initCount'[i] = initCount[i]
              /\ gen'[genOf[i]] = gen[genOf[i]]
              /\ last'.result = <<>> /\ last'.fwd = <<>> /\ last'.q = NoQ
              /\ LastEvent(last'.ev) =
                    (IF last'.err.type = "PriorError" THEN "prior_compute" ELSE "initialize")
        \* with the flag at 0 the invocation attempts the initialization,
        \* whatever happened before
        /\ initialized[i] = 0 =>
              /\ InSeq("prior_compute", last'.ev) \/ InSeq("prior_hit", last'.ev)
              /\ last'.err.type # "PriorError" => InSeq("initialize", last'.ev)
        \* the flag is 1 afterwards exactly when it was, or when
        \* initialize_variational_distribution has returned
        /\ initialized'[i] = 1 <=>
              \/ initialized[i] = 1
              \/ InSeq("initialize", last'.ev) /\ last'.err.type \notin InitFailures

\* C18: when the prior computation or initialize_variational_distribution
\* raises, the invocation aborts with that error and the flag stays 0, so the
\* next non-prior invocation attempts the initialization again; the flag
\* becomes 1 only after initialize_variational_distribution has returned.
C18_FailedInitRetried == [][C18_FailStep]_vars

\* An evaluation-mode invocation that found the prior cached by an earlier
\* failed attempt, initialized and returned.
C18_Witness ==
    /\ NonPriorInvocation(last) /\ Returned(last) /\ ~last.tr
    /\ last.ev[2] = "prior_hit" /\ InSeq("initialize", last.ev)
    /\ initialized[last.inst] = 1
    /\ ~is_in_cache(cache[last.inst], CHOL)
    /\ get_from_cache(cache[last.inst], QU).init = 1

----------------------------------------------------------------------------
(* C19 *)

Constructed == kernel.dsf.status # "none"

\* C19: constructing the importance-weighted variant with num_dims alone
\* completes and configures one flow block; hidden_factors reaches the flow
\* transform's configuration and is not used as the stack size; a ModuleList
\* of k blocks is built only for an integer stack_size k > 1 given to the
\* base constructor.
C19_DefaultConstructs ==
    Constructed =>
        /\ kernel.variant = "weighted" =>
              /\ ~kernel.dsf.list
              /\ kernel.dsf.hidden = (IF kernel.dsf.given = DefaultArg
                                      THEN DefaultHiddenFactors ELSE kernel.dsf.given)
              /\ kernel.dsf.given = DefaultArg =>
                    (kernel.dsf.status = "ok" /\ kernel.dsf.blocks = 1)
        /\ kernel.dsf.list =>
              /\ kernel.variant = "plain"
              /\ kernel.dsf.given.type = "int" /\ kernel.dsf.given.val[1] > 1
              /\ kernel.dsf.blocks = kernel.dsf.given.val[1]

====
